---- MODULE Spec2Model ----
(***************************************************************************)
(* Model of the document indexing pipeline:                                *)
(*   DocumentParser      (document_paresing_and_extracting_structuerd.py)  *)
(*   DocumentNormalizer  (normalization_and_cleaning.py)                   *)
(* Text is a sequence of one-character strings; "\n" separates lines.      *)
(* A code point outside ASCII is written as its name, e.g. "U0958".        *)
(***************************************************************************)
EXTENDS Integers, Sequences, FiniteSets, TLC

VARIABLES
    \* ---- DocumentParser.parse_document ----
    content,          \* the text handed to parse_document
    file_type,        \* the format hint
    lines,            \* content.split('\n')
    doc_format,       \* result of _detect_format
    i,                \* line index of _parse_elements (0-based)
    position,         \* next element position of _parse_elements
    elements,         \* element list under construction
    hierarchy,        \* dict parent id -> list of child ids
    parent_stack,     \* stack of <<element_id, level>> in _build_hierarchy
    h,                \* number of elements _build_hierarchy has visited
    metadata,         \* dict of _extract_metadata
    toc,              \* list of _generate_table_of_contents
    pc,               \* position inside parse_document
    structure,        \* the DocumentStructure returned / handed to normalize
    \* ---- DocumentNormalizer.normalize_document ----
    cleaning_level,   \* self.cleaning_level
    stats,            \* the CleaningStats accumulator
    cleaned_elements, \* kept cleaned elements
    detected_languages,
    k,                \* number of structure.elements already visited
    normalized,       \* the NormalizedDocument returned
    npc,              \* position inside normalize_document
    detect_calls,     \* the calls of langdetect.detect made by this run
    run,              \* number of normalize_document calls started
    validation        \* the dict returned by validate_cleaning

pvars == <<content, file_type, lines, doc_format, i, position, elements,
           hierarchy, parent_stack, h, metadata, toc, pc>>
nvars == <<cleaning_level, stats, cleaned_elements, detected_languages, k,
           normalized, npc, detect_calls, run, validation>>
vars == <<pvars, structure, nvars>>

----------------------------------------------------------------------------
(* Bounds of the model *)

MaxLines == 3        \* lines of an input text
MaxElements == 5     \* cap on len(elements) while _parse_elements runs

----------------------------------------------------------------------------
(* Characters *)

UpperSeq == <<"A","B","C","D","E","F","G","H","I","J","K","L","M",
             "N","O","P","Q","R","S","T","U","V","W","X","Y","Z">>
LowerSeq == <<"a","b","c","d","e","f","g","h","i","j","k","l","m",
             "n","o","p","q","r","s","t","u","v","w","x","y","z">>
Upper == {UpperSeq[n] : n \in 1..26}
Lower == {LowerSeq[n] : n \in 1..26}
Digit == {"0","1","2","3","4","5","6","7","8","9"}

\* str.isspace() / regex \s (U+000B, U+001F, U+00A0 and U+3000 are
\* white space to Python, U+200B is not)
IsSpace(c) == c \in {" ", "\t", "\n", "\r", "\f",
                     "U000B", "U001F", "U00A0", "U3000"}

\* str.isalnum(): letters and digits; U+0915 and U+0958 are letters,
\* U+093C and U+0301 are combining marks
IsAlnum(c) == c \in Upper \cup Lower \cup Digit \cup {"U0915", "U0958", "U00E9"}

\* str.islower()
IsLower(c) == c \in Lower \cup {"U00E9"}

\* regex \w
IsWord(c) == IsAlnum(c) \/ c = "_"

\* the lower-case form re.IGNORECASE compares
to_lower(c) ==
    IF c \in Upper THEN LowerSeq[CHOOSE n \in 1..26 : UpperSeq[n] = c] ELSE c

Min(a, b) == IF a < b THEN a ELSE b
Max(a, b) == IF a > b THEN a ELSE b

\* s[a..b] on 1-based indices, empty when a > b
Slice(s, a, b) == IF a > b THEN <<>> ELSE SubSeq(s, a, b)

\* number of leading characters of s, from index p on, that satisfy the class
RunFrom(s, p, InClass(_)) ==
    CHOOSE n \in 0..Max(0, Len(s) - p + 1) :
        /\ \A j \in p..(p + n - 1) : InClass(s[j])
        /\ (p + n > Len(s) \/ ~InClass(s[p + n]))

IsHash(c) == c = "#"
IsDigit(c) == c \in Digit
NotSpace(c) == ~IsSpace(c)

\* str.strip()
strip(s) ==
    LET lead == RunFrom(s, 1, IsSpace) IN
    IF lead = Len(s) THEN <<>>
    ELSE LET last == CHOOSE e \in 1..Len(s) :
                        /\ ~IsSpace(s[e])
                        /\ \A j \in (e + 1)..Len(s) : IsSpace(s[j])
         IN SubSeq(s, lead + 1, last)

\* the concatenation of Piece(1), ..., Piece(n), by halving the range
FlatMapIdx(n, Piece(_)) ==
    LET F[lo \in 1..(n + 1), hi \in 0..n] ==
            IF lo > hi THEN <<>>
            ELSE IF lo = hi THEN Piece(lo)
            ELSE F[lo, (lo + hi) \div 2] \o F[((lo + hi) \div 2) + 1, hi]
    IN F[1, n]

\* the subsequence of s at the indices p that satisfy Keep(p)
SelectIdx(s, Keep(_)) ==
    FlatMapIdx(Len(s), LAMBDA p : IF Keep(p) THEN <<s[p]>> ELSE <<>>)

\* str.startswith(prefix), at offset p (1-based)
StartsWithAt(s, p, prefix) ==
    /\ p + Len(prefix) - 1 <= Len(s)
    /\ \A j \in 1..Len(prefix) : s[p + j - 1] = prefix[j]

startswith(s, prefix) == StartsWithAt(s, 1, prefix)

\* str.split('\n')
split_lines(s) ==
    LET nl == {p \in 1..Len(s) : s[p] = "\n"}
        nth(n) == IF n = 0 THEN 0
                  ELSE IF n > Cardinality(nl) THEN Len(s) + 1
                  ELSE CHOOSE p \in nl : Cardinality({q \in nl : q < p}) = n - 1
    IN [n \in 1..(Cardinality(nl) + 1) |-> Slice(s, nth(n - 1) + 1, nth(n) - 1)]

\* '\n'.join(ls)
RECURSIVE join_lines(_)
join_lines(ls) ==
    IF Len(ls) = 0 THEN <<>>
    ELSE IF Len(ls) = 1 THEN ls[1]
    ELSE ls[1] \o <<"\n">> \o join_lines(Tail(ls))

\* len(s.split()): number of maximal runs of non-whitespace
word_count(s) ==
    Cardinality({p \in 1..Len(s) :
                    ~IsSpace(s[p]) /\ (p = 1 \/ IsSpace(s[p - 1]))})

----------------------------------------------------------------------------
(* DocumentParser: the patterns of __init__, each as re.match applies it *)

\* r'^#{1,6}\s+(.+)$'
md_hash_heading(line) ==
    LET n == RunFrom(line, 1, IsHash) IN
    /\ n >= 1 /\ n <= 6
    /\ Len(line) >= n + 2
    /\ IsSpace(line[n + 1])
    /\ \A j \in (n + 2)..Len(line) : line[j] # "\n"

\* group(1) of the pattern above: what follows the markers and the blanks
md_hash_group1(line) ==
    LET n == RunFrom(line, 1, IsHash)
        w == RunFrom(line, n + 1, IsSpace)
    IN IF n + w < Len(line) THEN SubSeq(line, n + w + 1, Len(line))
       ELSE SubSeq(line, Len(line), Len(line))

\* lambda m: len(m.group(1).split()[0])
md_hash_level(line) ==
    LET g == md_hash_group1(line)
        s == RunFrom(g, 1, IsSpace)
    IN RunFrom(g, s + 1, NotSpace)

\* r'^([A-Z][^.]*\.)$'
md_sentence_heading(line) ==
    /\ Len(line) >= 2
    /\ line[1] \in Upper
    /\ line[Len(line)] = "."
    /\ \A j \in 2..(Len(line) - 1) : line[j] # "."

\* r'^[A-Z][A-Z\s]{10,}$'
general_caps_heading(line) ==
    /\ Len(line) >= 11
    /\ line[1] \in Upper
    /\ \A j \in 2..Len(line) : line[j] \in Upper \/ IsSpace(line[j])

\* r'^\d+\.\s+[A-Z]'
general_numbered_heading(line) ==
    LET d == RunFrom(line, 1, IsDigit)
        w == RunFrom(line, d + 2, IsSpace)
    IN /\ d >= 1
       /\ Len(line) >= d + 1 /\ line[d + 1] = "."
       /\ w >= 1
       /\ Len(line) >= d + 2 + w /\ line[d + 2 + w] \in Upper

\* r'^[A-Z][a-z\s]+:$'
general_colon_heading(line) ==
    /\ Len(line) >= 3
    /\ line[1] \in Upper
    /\ line[Len(line)] = ":"
    /\ \A j \in 2..(Len(line) - 1) : line[j] \in Lower \/ IsSpace(line[j])

\* the tail r'\s+(.+)$' shared by the three list patterns, from index p on
ListTail(line, p) ==
    /\ Len(line) >= p + 1
    /\ IsSpace(line[p])
    /\ \A j \in (p + 1)..Len(line) : line[j] # "\n"

\* r'^[\s]*[-•*]\s+(.+)$'
list_bullet(line) ==
    LET w == RunFrom(line, 1, IsSpace) IN
    /\ Len(line) >= w + 1 /\ line[w + 1] \in {"-", "U2022", "*"}
    /\ ListTail(line, w + 2)

\* r'^[\s]*\d+\.\s+(.+)$'
list_numbered(line) ==
    LET w == RunFrom(line, 1, IsSpace)
        d == RunFrom(line, w + 1, IsDigit)
    IN /\ d >= 1
       /\ Len(line) >= w + d + 1 /\ line[w + d + 1] = "."
       /\ ListTail(line, w + d + 2)

\* r'^[\s]*[a-zA-Z]\.\s+(.+)$'
list_lettered(line) ==
    LET w == RunFrom(line, 1, IsSpace) IN
    /\ Len(line) >= w + 2
    /\ line[w + 1] \in Upper \cup Lower
    /\ line[w + 2] = "."
    /\ ListTail(line, w + 3)

\* self.list_patterns, any of them
list_patterns(line) ==
    list_bullet(line) \/ list_numbered(line) \/ list_lettered(line)

\* r'\|.*\|' under re.match: anchored at the first character
table_pipes(line) ==
    /\ Len(line) >= 2 /\ line[1] = "|"
    /\ \E p \in 2..Len(line) :
          line[p] = "|" /\ \A j \in 2..(p - 1) : line[j] # "\n"

\* r'^\s*\+[-+\s]+\+\s*$'
table_border(line) ==
    LET w == RunFrom(line, 1, IsSpace)
        plus == {p \in 1..Len(line) : line[p] = "+"}
    IN /\ Len(line) >= w + 3 /\ line[w + 1] = "+"
       /\ \E p \in plus :
             /\ p >= w + 3
             /\ \A j \in (w + 2)..(p - 1) :
                   line[j] \in {"-", "+"} \/ IsSpace(line[j])
             /\ \A j \in (p + 1)..Len(line) : IsSpace(line[j])

\* self.table_patterns, any of them
table_patterns(line) == table_pipes(line) \/ table_border(line)

\* three backticks (U+0060)
Fence == <<"U0060","U0060","U0060">>
Indent4 == <<" "," "," "," ">>

\* code_patterns[0]: the fence, word characters, a newline, text without
\* newline, a newline, the fence
code_fenced(line) ==
    LET w == RunFrom(line, 4, IsWord) IN
    /\ startswith(line, Fence)
    /\ Len(line) >= 4 + w /\ line[4 + w] = "\n"
    /\ \E p \in (5 + w)..Len(line) :
          /\ line[p] = "\n"
          /\ \A j \in (5 + w)..(p - 1) : line[j] # "\n"
          /\ StartsWithAt(line, p + 1, Fence)
          /\ (Len(line) = p + 3 \/ (Len(line) = p + 4 /\ line[p + 4] = "\n"))

\* r'^\s{4,}.*$'
code_indented(line) ==
    /\ RunFrom(line, 1, IsSpace) >= 4
    /\ \A j \in 1..Len(line) :
          (line[j] = "\n" /\ j > 4) => j = Len(line)

\* self.code_patterns, any of them
code_patterns(line) == code_fenced(line) \/ code_indented(line)

----------------------------------------------------------------------------
(* DocumentParser: helpers of parse_document *)

None == <<>>
EmptyDict == <<>>
Null == [null |-> TRUE]

\* f"element_{position}"
element_id(p) == <<"element_", p>>

\* the constructor call with the line index passed as position
DocumentElement_line_position(c, t, lvl, pos, first, last) ==
    [content |-> c, element_type |-> t, level |-> lvl, position |-> first,
     metadata |-> [line_start |-> first, line_end |-> last],
     parent_id |-> None, children_ids |-> <<>>]

\* DocumentElement(content, element_type, level, position, metadata={...})
\* with the dataclass defaults parent_id = None, children_ids = []
DocumentElement(c, t, lvl, pos, first, last) ==
    [content |-> c, element_type |-> t, level |-> lvl, position |-> pos,
     metadata |-> [line_start |-> first, line_end |-> last],
     parent_id |-> None, children_ids |-> <<>>]

DocumentStructure(es, hy, md, tc) ==
    [elements |-> es, hierarchy |-> hy, metadata |-> md,
     table_of_contents |-> tc]

\* re.search(r'^#{1,6}\s+', content, re.MULTILINE)
has_hash_line(text) ==
    \E p \in 1..Len(text) :
        /\ (p = 1 \/ text[p - 1] = "\n")
        /\ LET n == RunFrom(text, p, IsHash) IN
              /\ n >= 1 /\ n <= 6
              /\ p + n <= Len(text) /\ IsSpace(text[p + n])

\* re.search(r'\|.*\|', content)
has_pipe_row(text) ==
    \E p \in 1..Len(text) : \E q \in (p + 1)..Len(text) :
        /\ text[p] = "|" /\ text[q] = "|"
        /\ \A j \in (p + 1)..(q - 1) : text[j] # "\n"

detect_format(text, ft) ==
    IF ft = "md" THEN "markdown"
    ELSE IF has_hash_line(text) THEN "markdown"
    ELSE IF has_pipe_row(text) THEN "markdown"
    ELSE "plain_text"

\* re.match(r'^[\s|\|+-]', line)
table_continues(line) ==
    Len(line) >= 1 /\ (IsSpace(line[1]) \/ line[1] \in {"|", "+", "-"})

\* _extract_table; ls is the list of lines, start a 0-based index
extract_table(ls, start) ==
    LET stop(e) == \/ e >= Len(ls)
                   \/ strip(ls[e + 1]) = <<>>
                   \/ ~table_continues(ls[e + 1])
        end == CHOOSE e \in (start + 1)..Len(ls) :
                  stop(e) /\ \A j \in (start + 1)..(e - 1) : ~stop(j)
    IN SubSeq(ls, start + 1, end)

\* _extract_code_block
extract_code_block(ls, start) ==
    LET line == strip(ls[start + 1]) IN
    IF startswith(line, Fence)
    THEN LET closes(e) == e >= Len(ls) \/ startswith(strip(ls[e + 1]), Fence)
             end == CHOOSE e \in (start + 1)..Len(ls) :
                       closes(e) /\ \A j \in (start + 1)..(e - 1) : ~closes(j)
         IN <<line>> \o Slice(ls, start + 2, end)
                     \o (IF end < Len(ls) THEN <<ls[end + 1]>> ELSE <<>>)
    ELSE LET ends(e) == e >= Len(ls) \/ ~startswith(ls[e + 1], Indent4)
             end == CHOOSE e \in start..Len(ls) :
                       ends(e) /\ \A j \in start..(e - 1) : ~ends(j)
         IN Slice(ls, start + 1, end)

\* _is_structured_line
is_structured_line(l) ==
    LET line == strip(l) IN
    \/ LET n == RunFrom(line, 1, IsHash) IN      \* r'^#{1,6}\s+'
          n >= 1 /\ n <= 6 /\ Len(line) > n /\ IsSpace(line[n + 1])
    \/ list_patterns(line)
    \/ table_patterns(line)

\* _extract_paragraph
extract_paragraph(ls, start) ==
    LET stop(e) == \/ e >= Len(ls)
                   \/ strip(ls[e + 1]) = <<>>
                   \/ is_structured_line(strip(ls[e + 1]))
        end == CHOOSE e \in start..Len(ls) :
                  stop(e) /\ \A j \in start..(e - 1) : ~stop(j)
    IN [n \in 1..(end - start) |-> strip(ls[start + n])]

Identified(t, lvl, cl, n) ==
    [element_type |-> t, level |-> lvl, content_lines |-> cl, consumed |-> n]

\* _identify_element
identify_element(ls, start_idx, fmt) ==
    LET line == strip(ls[start_idx + 1]) IN
    IF fmt = "markdown" /\ md_hash_heading(line)
        THEN Identified("heading", md_hash_level(line), <<line>>, 1)
    ELSE IF fmt = "markdown" /\ md_sentence_heading(line)
        THEN Identified("heading", 1, <<line>>, 1)
    ELSE IF general_caps_heading(line)
        THEN Identified("heading", 1, <<line>>, 1)
    ELSE IF general_numbered_heading(line)
        THEN Identified("heading", 2, <<line>>, 1)
    ELSE IF general_colon_heading(line)
        THEN Identified("heading", 2, <<line>>, 1)
    ELSE IF list_patterns(line)
        THEN Identified("list_item", 1, <<line>>, 1)
    ELSE IF table_patterns(line)
        THEN LET table_lines == extract_table(ls, start_idx) IN
             Identified("table", 1, table_lines, Len(table_lines))
    ELSE IF code_patterns(line)
        THEN LET code_lines == extract_code_block(ls, start_idx) IN
             Identified("code_block", 1, code_lines, Len(code_lines))
    ELSE Identified("unknown", 0, <<>>, 0)

IsHeading(e) == e.element_type \in {"title", "heading"}

\* _extract_metadata
extract_metadata(es, full_content) ==
    LET types == {es[n].element_type : n \in 1..Len(es)}
        base == [total_elements |-> Len(es),
                 element_types |->
                    [t \in types |->
                        Cardinality({n \in 1..Len(es) : es[n].element_type = t})],
                 word_count |-> word_count(full_content),
                 char_count |-> Len(full_content),
                 line_count |-> Len(split_lines(full_content))]
        tops == {n \in 1..Len(es) : IsHeading(es[n]) /\ es[n].level = 1}
    IN IF tops = {} THEN base
       ELSE LET first == CHOOSE n \in tops : \A m \in tops : n <= m IN
            [total_elements |-> base.total_elements,
             element_types |-> base.element_types,
             word_count |-> base.word_count,
             char_count |-> base.char_count,
             line_count |-> base.line_count,
             title |-> es[first].content]

TocEntry(e) ==
    [title |-> e.content, level |-> e.level, position |-> e.position,
     element_id |-> element_id(e.position)]

\* the table of contents built with insert(0, ...) in place of append
RECURSIVE generate_table_of_contents_reversed(_)
generate_table_of_contents_reversed(es) ==
    IF es = <<>> THEN <<>>
    ELSE generate_table_of_contents_reversed(Tail(es))
         \o (IF IsHeading(es[1]) THEN <<TocEntry(es[1])>> ELSE <<>>)

\* _generate_table_of_contents
RECURSIVE generate_table_of_contents(_)
generate_table_of_contents(es) ==
    IF es = <<>> THEN <<>>
    ELSE (IF IsHeading(es[1]) THEN <<TocEntry(es[1])>> ELSE <<>>)
         \o generate_table_of_contents(Tail(es))

----------------------------------------------------------------------------
(* Inputs of parse_document *)

LineBlank == <<>>
LineSpaces == <<" "," "," ">>                               \* "   "
LineTitle == <<"#"," ","T","i","t","l","e">>                \* "# Title"
LineSub == <<"#","#"," ","a","b">>                          \* "## ab"
LineSentence ==                                  \* "Some paragraph text here."
    <<"S","o","m","e"," ","p","a","r","a","g","r","a","p","h"," ",
      "t","e","x","t"," ","h","e","r","e",".">>
LineIndentedHash == <<" "," "," "," ","#"," ","x">>         \* "    # x"
LineItem == <<"-"," ","i","t","e","m"," ","o","n","e">>     \* "- item one"
LineItemTwo == <<"-"," ","i","t","e","m"," ","t","w","o">>  \* "- item two"
LineFence == <<"U0060","U0060","U0060">>                      \* a fence line
LineCode == <<" "," "," "," ","x">>                         \* "    x"
LinePlain == <<"p","l","a","i","n"," ","t","e","x","t">>    \* "plain text"
LineColon == <<"N","o","t","e","s",":">>                    \* "Notes:"
LineRow == <<"|"," ","a"," ","|">>                          \* "| a |"

Vocabulary ==
    {LineBlank, LineSpaces, LineTitle, LineSub, LineSentence,
     LineIndentedHash, LineItem, LineItemTwo, LinePlain, LineColon, LineRow,
     LineFence, LineCode}

FileTypes == {"md", "markdown", "unknown"}

Texts ==
    UNION { {join_lines(ls) : ls \in [1..n -> Vocabulary]} : n \in 0..MaxLines }

----------------------------------------------------------------------------
(* DocumentParser.parse_document as a state machine *)

NormalizerIdle ==
    /\ cleaning_level = "standard"
    /\ stats = Null
    /\ cleaned_elements = <<>>
    /\ detected_languages = <<>>
    /\ k = 0
    /\ normalized = Null
    /\ npc = "idle"
    /\ detect_calls = <<>>
    /\ run = 0
    /\ validation = Null

Init ==
    /\ content \in Texts
    /\ file_type \in FileTypes
    /\ lines = <<>>
    /\ doc_format = "unset"
    /\ i = 0
    /\ position = 0
    /\ elements = <<>>
    /\ hierarchy = EmptyDict
    /\ parent_stack = <<>>
    /\ h = 0
    /\ metadata = EmptyDict
    /\ toc = <<>>
    /\ pc = "start"
    /\ structure = Null
    /\ NormalizerIdle

\* the test of the early return with the whitespace check left out
is_empty_input_no_strip(text) == text = <<>>

\* "not content or not content.strip()"
is_empty_input(text) == text = <<>> \/ strip(text) = <<>>

\* parse_document, lines 82-83: the early return on empty input
ParseEmpty ==
    /\ pc = "start"
    /\ is_empty_input(content)
    /\ structure' = DocumentStructure(<<>>, EmptyDict, EmptyDict, <<>>)
    /\ pc' = "done"
    /\ UNCHANGED <<content, file_type, lines, doc_format, i, position,
                   elements, hierarchy, parent_stack, h, metadata, toc>>
    /\ UNCHANGED nvars

\* parse_document, lines 86-89: split into lines, detect the format
ParseBegin ==
    /\ pc = "start"
    /\ ~is_empty_input(content)
    /\ lines' = split_lines(content)
    /\ doc_format' = detect_format(content, file_type)
    /\ i' = 0
    /\ position' = 0
    /\ elements' = <<>>
    /\ pc' = "parse_elements"
    /\ UNCHANGED <<content, file_type, hierarchy, parent_stack, h, metadata,
                   toc, structure>>
    /\ UNCHANGED nvars

\* one iteration of the while loop of _parse_elements
ParseElementsStep ==
    /\ pc = "parse_elements"
    /\ i < Len(lines)
    /\ Len(elements) < MaxElements
    /\ LET line == strip(lines[i + 1]) IN
       IF line = <<>>
       THEN /\ i' = i + 1
            /\ UNCHANGED <<elements, position>>
       ELSE LET r == identify_element(lines, i, doc_format) IN
            IF r.element_type # "unknown"
            THEN /\ elements' = Append(elements,
                        DocumentElement(join_lines(r.content_lines),
                                        r.element_type, r.level, position,
                                        i, i + r.consumed - 1))
                 /\ position' = position + 1
                 /\ i' = i + r.consumed
            ELSE LET paragraph_lines == extract_paragraph(lines, i) IN
                 /\ elements' = Append(elements,
                        DocumentElement(join_lines(paragraph_lines),
                                        "paragraph", 0, position,
                                        i, i + Len(paragraph_lines) - 1))
                 /\ position' = position + 1
                 /\ i' = i + Len(paragraph_lines)
    /\ UNCHANGED <<content, file_type, lines, doc_format, hierarchy,
                   parent_stack, h, metadata, toc, pc, structure>>
    /\ UNCHANGED nvars

\* _parse_elements returns; _build_hierarchy starts
ParseElementsReturn ==
    /\ pc = "parse_elements"
    /\ i >= Len(lines)
    /\ hierarchy' = EmptyDict
    /\ parent_stack' = <<>>
    /\ h' = 0
    /\ pc' = "build_hierarchy"
    /\ UNCHANGED <<content, file_type, lines, doc_format, i, position,
                   elements, metadata, toc, structure>>
    /\ UNCHANGED nvars

\* the pop loop with ">" in place of ">="
pop_parents_strict(stack, level) ==
    LET keep == CHOOSE n \in 0..Len(stack) :
                   /\ (n = 0 \/ stack[n][2] <= level)
                   /\ \A j \in (n + 1)..Len(stack) : stack[j][2] > level
    IN SubSeq(stack, 1, keep)

\* the stack after "while parent_stack and parent_stack[-1][1] >= level: pop()"
pop_parents(stack, level) ==
    LET keep == CHOOSE n \in 0..Len(stack) :
                   /\ (n = 0 \/ stack[n][2] < level)
                   /\ \A j \in (n + 1)..Len(stack) : stack[j][2] >= level
    IN SubSeq(stack, 1, keep)

\* hierarchy[parent_id].append(element_id), creating the list when absent
hierarchy_append(hy, parent, child) ==
    [p \in (DOMAIN hy) \cup {parent} |->
        IF p = parent
        THEN Append(IF parent \in DOMAIN hy THEN hy[parent] ELSE <<>>, child)
        ELSE hy[p]]

\* the push without the test of the element type
push_parent_any_element(stack, element, id) ==
    Append(stack, <<id, element.level>>)

\* "if element.element_type in [TITLE, HEADING]: parent_stack.append(...)"
push_parent(stack, element, id) ==
    IF IsHeading(element) THEN Append(stack, <<id, element.level>>) ELSE stack

\* one iteration of the for loop of _build_hierarchy
BuildHierarchyStep ==
    /\ pc = "build_hierarchy"
    /\ h < Len(elements)
    /\ LET element == elements[h + 1]
           id == element_id(element.position)
           stack == pop_parents(parent_stack, element.level)
       IN /\ IF stack # <<>>
             THEN LET parent_id == stack[Len(stack)][1] IN
                  /\ elements' = [elements EXCEPT ![h + 1].parent_id = parent_id]
                  /\ hierarchy' = hierarchy_append(hierarchy, parent_id, id)
             ELSE UNCHANGED <<elements, hierarchy>>
          /\ parent_stack' = push_parent(stack, element, id)
    /\ h' = h + 1
    /\ UNCHANGED <<content, file_type, lines, doc_format, i, position,
                   metadata, toc, pc, structure>>
    /\ UNCHANGED nvars

\* parse_document, lines 98-108: metadata, table of contents, return
ParseReturn ==
    /\ pc = "build_hierarchy"
    /\ h >= Len(elements)
    /\ metadata' = extract_metadata(elements, content)
    /\ toc' = generate_table_of_contents(elements)
    /\ structure' = DocumentStructure(elements, hierarchy, metadata', toc')
    /\ pc' = "done"
    /\ UNCHANGED <<content, file_type, lines, doc_format, i, position,
                   elements, hierarchy, parent_stack, h>>
    /\ UNCHANGED nvars

Next ==
    \/ ParseEmpty
    \/ ParseBegin
    \/ ParseElementsStep
    \/ ParseElementsReturn
    \/ BuildHierarchyStep
    \/ ParseReturn

Spec == Init /\ [][Next]_vars

----------------------------------------------------------------------------
(* Properties of parse_document *)

Returned == pc = "done"

\* C1: every iteration of the element scan of _parse_elements advances the
\* line index by at least one line, so that parse_document terminates.
C1_ScanAdvances ==
    [][(pc = "parse_elements" /\ pc' = "parse_elements") => i' > i]_vars

\* C2: the position values of the elements are 0, 1, ..., n-1 in list order,
\* while the list is built and in the structure parse_document returns.
C2_PositionsContiguous ==
    /\ \A n \in 1..Len(elements) : elements[n].position = n - 1
    /\ Returned =>
          \A n \in 1..Len(structure.elements) :
              structure.elements[n].position = n - 1

C2_Witness == Returned /\ Len(structure.elements) >= 3

\* the elements of es whose id is id
WithId(es, id) == {m \in 1..Len(es) : element_id(es[m].position) = id}

\* C3: after hierarchy construction every element with a non-null parent_id
\* has a parent whose level is strictly less than its own level.
C3_ParentLevelLower ==
    \A n \in 1..Len(elements) :
        elements[n].parent_id # None =>
            /\ WithId(elements, elements[n].parent_id) # {}
            /\ \A m \in WithId(elements, elements[n].parent_id) :
                  elements[m].level < elements[n].level

C3_Witness ==
    /\ Returned
    /\ \E n \in 1..Len(structure.elements) :
          structure.elements[n].parent_id # None

\* the indices of the Title/Heading elements of es
HeadingIndices(es) == {n \in 1..Len(es) : es[n].element_type \in {"title", "heading"}}

\* C4: the table of contents has exactly one entry per Title/Heading element,
\* in the order of the elements, each with that element's content, level,
\* position and id.
C4_TocIsHeadingProjection ==
    Returned =>
        LET es == structure.elements
            tc == structure.table_of_contents
            hs == HeadingIndices(es)
        IN /\ Len(tc) = Cardinality(hs)
           /\ \A n \in hs :
                 LET j == Cardinality({m \in hs : m < n}) + 1 IN
                 /\ tc[j].title = es[n].content
                 /\ tc[j].level = es[n].level
                 /\ tc[j].position = es[n].position
                 /\ tc[j].element_id = element_id(es[n].position)

C4_Witness ==
    /\ Returned
    /\ Cardinality(HeadingIndices(structure.elements)) >= 2
    /\ Cardinality(HeadingIndices(structure.elements)) < Len(structure.elements)

\* "# Title\n\nSome paragraph text here."
ScenarioA == join_lines(<<LineTitle, LineBlank, LineSentence>>)

\* C5: parsing ScenarioA yields exactly two elements, the Heading "# Title"
\* and the Paragraph "Some paragraph text here.", and a table of contents
\* with the single entry "# Title" at position 0.
C5_ScenarioA ==
    (Returned /\ content = ScenarioA) =>
        /\ Len(structure.elements) = 2
        /\ structure.elements[1].element_type = "heading"
        /\ structure.elements[1].content = LineTitle
        /\ structure.elements[2].element_type = "paragraph"
        /\ structure.elements[2].content = LineSentence
        /\ Len(structure.table_of_contents) = 1
        /\ structure.table_of_contents[1].title = LineTitle
        /\ structure.table_of_contents[1].position = 0

C7_EmptyInput ==
    strip(content) = <<>> =>
        \/ pc = "start"
        \/ /\ Returned
           /\ structure.elements = <<>>
           /\ DOMAIN structure.hierarchy = {}
           /\ DOMAIN structure.metadata = {}
           /\ structure.table_of_contents = <<>>

C7_Witness == Returned /\ content # <<>> /\ strip(content) = <<>>

ScenarioB == join_lines(<<LineItem, LineItemTwo>>)

\* C16: parsing "- item one\n- item two" yields exactly two ListItem
\* elements of level 1 without parent, an empty hierarchy and an empty
\* table of contents; in a document without Title/Heading element no
\* element has a parent.
C16_NoHeadingNoParent ==
    Returned =>
        /\ content = ScenarioB =>
              /\ Len(structure.elements) = 2
              /\ \A n \in 1..2 :
                    /\ structure.elements[n].element_type = "list_item"
                    /\ structure.elements[n].level = 1
                    /\ structure.elements[n].parent_id = None
              /\ structure.elements[1].content = LineItem
              /\ structure.elements[2].content = LineItemTwo
              /\ structure.hierarchy = EmptyDict
              /\ structure.table_of_contents = <<>>
        /\ HeadingIndices(structure.elements) = {} =>
              /\ \A n \in 1..Len(structure.elements) :
                    structure.elements[n].parent_id = None
              /\ structure.hierarchy = EmptyDict

C16_Witness == Returned /\ content = ScenarioB

\* the ids of the elements of es whose parent_id is id, in document order
ChildrenOf(es, id) ==
    LET children == SelectIdx(es, LAMBDA n : es[n].parent_id = id)
    IN [n \in 1..Len(children) |-> element_id(children[n].position)]

\* C17: after parsing, the children_ids of every Title/Heading element are
\* the ids of the elements whose parent_id is its id, in document order,
\* and equal its entry of the hierarchy map; every other element has empty
\* children_ids and is no key of the hierarchy map.
C17_ChildrenInverseOfParent ==
    Returned =>
        \A n \in 1..Len(structure.elements) :
            LET e == structure.elements[n]
                id == element_id(e.position)
            IN IF IsHeading(e)
               THEN /\ e.children_ids = ChildrenOf(structure.elements, id)
                    /\ id \in DOMAIN structure.hierarchy =>
                          structure.hierarchy[id] = e.children_ids
               ELSE /\ e.children_ids = <<>>
                    /\ id \notin DOMAIN structure.hierarchy

\* the Title/Heading elements before element n of es of a lower level
EnclosingHeadings(es, n) ==
    {m \in 1..(n - 1) : IsHeading(es[m]) /\ es[m].level < es[n].level}

\* the id of the latest of them, or None
NearestEnclosing(es, n) ==
    IF EnclosingHeadings(es, n) = {} THEN None
    ELSE element_id(es[CHOOSE m \in EnclosingHeadings(es, n) :
                          \A j \in EnclosingHeadings(es, n) : j <= m].position)

\* C21: the parent_id of every element of a parsed document is the id of
\* the latest Title/Heading element before it whose level is strictly less
\* than its own, and null when there is none, whatever non-heading
\* elements lie in between.
C21_NearestEnclosingHeading ==
    Returned =>
        \A n \in 1..Len(structure.elements) :
            structure.elements[n].parent_id
                = NearestEnclosing(structure.elements, n)

\* the stripped line matches a heading, list or table rule of the line
\* classification, the rules tried before the code block rules
EarlierRule(line, fmt) ==
    \/ fmt = "markdown" /\ (md_hash_heading(line) \/ md_sentence_heading(line))
    \/ general_caps_heading(line)
    \/ general_numbered_heading(line)
    \/ general_colon_heading(line)
    \/ list_patterns(line)
    \/ table_patterns(line)

\* the 1-based line that closes the fence opened on line 1 of ls, the last
\* line when no fence follows
ClosingFence(ls) ==
    IF \E j \in 2..Len(ls) : startswith(strip(ls[j]), Fence)
    THEN CHOOSE j \in 2..Len(ls) :
            /\ startswith(strip(ls[j]), Fence)
            /\ \A m \in 2..(j - 1) : ~startswith(strip(ls[m]), Fence)
    ELSE Len(ls)

\* the last line of the run of indented lines that starts on line 1 of ls
IndentedRunEnd(ls) ==
    CHOOSE e \in 1..Len(ls) :
        /\ \A j \in 1..e : startswith(ls[j], Indent4)
        /\ e < Len(ls) => ~startswith(ls[e + 1], Indent4)

\* the first element of es is a CodeBlock over the lines 1..last
FirstIsCodeBlock(es, last) ==
    /\ es # <<>>
    /\ es[1].element_type = "code_block"
    /\ es[1].metadata.line_start = 0
    /\ es[1].metadata.line_end = last - 1

\* C23: a document whose first line opens a fence and matches no earlier
\* rule starts with one CodeBlock element that takes every line up to and
\* including the closing fence; a document that starts with an unfenced run
\* of lines of at least 4 leading spaces starts with one CodeBlock element
\* made of that run.
C23_CodeBlocks ==
    (Returned /\ strip(content) # <<>>) =>
        LET ls == split_lines(content) IN
        /\ (/\ startswith(strip(ls[1]), Fence)
            /\ ~EarlierRule(strip(ls[1]), doc_format)) =>
              FirstIsCodeBlock(structure.elements, ClosingFence(ls))
        /\ (/\ startswith(ls[1], Indent4)
            /\ strip(ls[1]) # <<>>
            /\ ~startswith(strip(ls[1]), Fence)
            /\ ~EarlierRule(strip(ls[1]), doc_format)) =>
              FirstIsCodeBlock(structure.elements, IndentedRunEnd(ls))

\* C24: no line of the content of a Paragraph element matches by itself a
\* heading, list or table rule of the line classification (the generic
\* heading rules included): such a line starts an element of its own.
C24_ParagraphStopsAtStructure ==
    Returned =>
        \A n \in 1..Len(structure.elements) :
            structure.elements[n].element_type = "paragraph" =>
                \A m \in 1..Len(split_lines(structure.elements[n].content)) :
                    ~EarlierRule(
                        strip(split_lines(structure.elements[n].content)[m]),
                        doc_format)

\* the format hints that name the markdown markup format
MarkdownHints == {"md", "markdown"}

\* C25: a format hint that names markdown selects the markdown rule set
\* whatever the content; with any other hint the content decides: markdown
\* if it has a hash-prefixed heading line or a pipe-delimited row, the
\* plain-text rule set otherwise.
C25_FormatHint ==
    doc_format # "unset" =>
        IF file_type \in MarkdownHints
        THEN doc_format = "markdown"
        ELSE doc_format = IF has_hash_line(content) \/ has_pipe_row(content)
                          THEN "markdown" ELSE "plain_text"

----------------------------------------------------------------------------
(* DocumentNormalizer: CleaningStats and the cleaning passes *)

\* CleaningStats()
CleaningStats ==
    [original_chars |-> 0, cleaned_chars |-> 0, headers_removed |-> 0,
     footers_removed |-> 0, unicode_fixed |-> 0, whitespace_normalized |-> 0,
     line_breaks_fixed |-> 0, invisible_chars_removed |-> 0,
     language_detected |-> "unknown"]

\* CleaningStats.get_reduction_percentage, as the exact fraction num/den
get_reduction_percentage(st) ==
    IF st.original_chars = 0 THEN [num |-> 0, den |-> 1]
    ELSE [num |-> (st.original_chars - st.cleaned_chars) * 100,
          den |-> st.original_chars]

\* comparisons of a percentage num/den (den > 0) with a whole number
PctGT(r, t) == r.num > t * r.den
PctLT(r, t) == r.num < t * r.den

\* the pattern word w at index p of line, compared under re.IGNORECASE
WordAtCI(line, p, w) ==
    /\ p >= 1 /\ p + Len(w) - 1 <= Len(line)
    /\ \A j \in 1..Len(w) : to_lower(line[p + j - 1]) = w[j]

DigitsAt(line, p, n) ==
    /\ p + n - 1 <= Len(line)
    /\ \A j \in p..(p + n - 1) : line[j] \in Digit

WordPage == <<"p","a","g","e">>
WordP == <<"p",".">>
WordConfidential == <<"c","o","n","f","i","d","e","n","t","i","a","l">>
WordDraft == <<"d","r","a","f","t">>
WordInternal == <<"i","n","t","e","r","n","a","l">>
WordChapter == <<"c","h","a","p","t","e","r">>
WordCh == <<"c","h",".">>
WordSection == <<"s","e","c","t","i","o","n">>
WordCopyright == <<"c","o","p","y","r","i","g","h","t">>
WordCopyrightSign == <<"U00A9">>
WordAllRights ==
    <<"a","l","l"," ","r","i","g","h","t","s"," ",
      "r","e","s","e","r","v","e","d">>

\* r'(?:page|p\.)\s*\d+$' matched from index p
page_core(line, p) ==
    \E w \in {WordPage, WordP} :
        /\ WordAtCI(line, p, w)
        /\ LET q == p + Len(w)
               d == q + RunFrom(line, q, IsSpace)
           IN d <= Len(line) /\ \A j \in d..Len(line) : line[j] \in Digit

\* r'(?:confidential|draft|internal)' matched from index p
marker_core(line, p) ==
    \E w \in {WordConfidential, WordDraft, WordInternal} : WordAtCI(line, p, w)

\* r'\d{1,2}/\d{1,2}/\d{2,4}' matched from index p
date_core(line, p) ==
    \E a \in 1..2 : \E b \in 1..2 :
        /\ DigitsAt(line, p, a)
        /\ p + a <= Len(line) /\ line[p + a] = "/"
        /\ DigitsAt(line, p + a + 1, b)
        /\ p + a + 1 + b <= Len(line) /\ line[p + a + 1 + b] = "/"
        /\ DigitsAt(line, p + a + b + 2, 2)

\* r'(?:chapter|ch\.|section)\s+\d+' matched from index p
chapter_core(line, p) ==
    \E w \in {WordChapter, WordCh, WordSection} :
        /\ WordAtCI(line, p, w)
        /\ LET q == p + Len(w)
               n == RunFrom(line, q, IsSpace)
           IN n >= 1 /\ DigitsAt(line, q + n, 1)

\* r'(?:copyright|©|all rights reserved)' matched from index p
copyright_core(line, p) ==
    \E w \in {WordCopyright, WordCopyrightSign, WordAllRights} :
        WordAtCI(line, p, w)

\* the offsets r'^.{0,n}?' allows under re.match
Offsets(line, n) ==
    {o \in 0..Min(n, Len(line)) : \A j \in 1..o : line[j] # "\n"}

\* any of self.header_patterns under re.match(..., re.IGNORECASE)
header_patterns(line) ==
    \/ \E o \in Offsets(line, 50) : page_core(line, o + 1)
    \/ \E o \in Offsets(line, 30) : marker_core(line, o + 1)
    \/ \E o \in Offsets(line, 30) : date_core(line, o + 1)
    \/ \E o \in Offsets(line, 30) : chapter_core(line, o + 1)

\* any of self.footer_patterns under re.search(..., re.IGNORECASE)
footer_patterns(line) ==
    \E p \in 1..Len(line) :
        page_core(line, p) \/ date_core(line, p) \/ copyright_core(line, p)

Cleaned(c, st) == [content |-> c, stats |-> st]

\* the verdict of the two pattern loops of _remove_headers_footers on a line
line_kind(line_stripped) ==
    IF header_patterns(line_stripped) THEN "header"
    ELSE IF footer_patterns(line_stripped) THEN "footer"
    ELSE "keep"

\* the verdicts of all lines
line_kinds(ls) == [n \in 1..Len(ls) |-> line_kind(strip(ls[n]))]

\* the lines kept and the counters, given the lines and their verdicts
drop_lines(ls, kinds, st) ==
    Cleaned(join_lines(SelectIdx(ls, LAMBDA n : kinds[n] = "keep")),
            [st EXCEPT
                !.headers_removed =
                    @ + Cardinality({n \in 1..Len(ls) : kinds[n] = "header"}),
                !.footers_removed =
                    @ + Cardinality({n \in 1..Len(ls) : kinds[n] = "footer"})])

\* the loop without "if not removed": a line matching a header and a
\* footer pattern is counted by both counters
filter_lines_both_counted(ls, st) ==
    Cleaned(join_lines(SelectIdx(ls, LAMBDA n : line_kind(strip(ls[n])) = "keep")),
            [st EXCEPT
                !.headers_removed =
                    @ + Cardinality({n \in 1..Len(ls) :
                                        header_patterns(strip(ls[n]))}),
                !.footers_removed =
                    @ + Cardinality({n \in 1..Len(ls) :
                                        footer_patterns(strip(ls[n]))})])

\* the loop of _remove_headers_footers over the lines ls
filter_lines(ls, st) == drop_lines(ls, line_kinds(ls), st)

\* _remove_headers_footers
remove_headers_footers(text, st) == filter_lines(split_lines(text), st)

\* unicodedata.normalize('NFC', text) on the code points of the model:
\* U+0958 is excluded from composition and becomes U+0915 U+093C,
\* "e" followed by U+0301 composes to U+00E9, the rest is unchanged
nfc(text) ==
    FlatMapIdx(Len(text), LAMBDA p :
        IF text[p] = "U0958" THEN <<"U0915", "U093C">>
        ELSE IF text[p] = "e" /\ p < Len(text) /\ text[p + 1] = "U0301"
             THEN <<"U00E9">>
        ELSE IF text[p] = "U0301" /\ p > 1 /\ text[p - 1] = "e" THEN <<>>
        ELSE <<text[p]>>)

\* "if normalized != content: stats.unicode_fixed += 1"
count_unicode_change(normalized_text, text, st) ==
    Cleaned(normalized_text,
            IF normalized_text # text
            THEN [st EXCEPT !.unicode_fixed = @ + 1] ELSE st)

\* _normalize_unicode
normalize_unicode(text, st) == count_unicode_change(nfc(text), text, st)

\* self.invisible_chars
invisible_chars ==
    {"U200B", "U200C", "U200D", "U2060", "UFEFF", "U00A0", "U3000"}

\* r'[\x00-\x08\x0B\x0C\x0E-\x1F\x7F]' (the code points the model names)
control_chars == {"U0000", "U0008", "U000B", "\f", "U000E", "U001F", "U007F"}

\* the text without invisible_chars and control characters
visible(text) ==
    SelectIdx(text, LAMBDA p :
        text[p] \notin invisible_chars \cup control_chars)

\* "removed_count = original_length - len(content)" and the counter
count_removed(kept, text, st) ==
    Cleaned(kept,
            IF Len(text) - Len(kept) > 0
            THEN [st EXCEPT !.invisible_chars_removed =
                                @ + (Len(text) - Len(kept))]
            ELSE st)

\* _remove_invisible_characters
remove_invisible_characters(text, st) == count_removed(visible(text), text, st)

\* content.replace('\r\n', '\n')
replace_crlf(text) ==
    SelectIdx(text, LAMBDA p :
        ~(text[p] = "\r" /\ p < Len(text) /\ text[p + 1] = "\n"))

\* content.replace('\r', '\n')
replace_cr(text) ==
    [p \in 1..Len(text) |-> IF text[p] = "\r" THEN "\n" ELSE text[p]]

\* the test of _fix_line_breaks on line n of ls: a sentence broken here
broken_sentence(ls, n) ==
    /\ n < Len(ls)
    /\ strip(ls[n]) # <<>>
    /\ IsLower(strip(ls[n])[Len(strip(ls[n]))])
    /\ strip(ls[n + 1]) # <<>>
    /\ IsLower(strip(ls[n + 1])[1])

\* the loop of _fix_line_breaks over the lines ls
fix_lines(ls, st) ==
    Cleaned(join_lines([n \in 1..Len(ls) |->
                           IF broken_sentence(ls, n)
                           THEN Append(strip(ls[n]), " ")
                           ELSE strip(ls[n])]),
            [st EXCEPT !.line_breaks_fixed =
                 @ + Cardinality({n \in 1..Len(ls) : broken_sentence(ls, n)})])

\* _fix_line_breaks
fix_line_breaks(text, st) ==
    fix_lines(split_lines(replace_cr(replace_crlf(text))), st)

\* re.sub(r' {2,}', ' ', content)
collapse_spaces(text) ==
    SelectIdx(text, LAMBDA p :
        ~(text[p] = " " /\ p > 1 /\ text[p - 1] = " "))

\* the first tab of every run of tabs
first_tabs(text) ==
    SelectIdx(text, LAMBDA p :
        ~(text[p] = "\t" /\ p > 1 /\ text[p - 1] = "\t"))

\* every tab as a blank
tabs_to_blanks(text) ==
    [p \in 1..Len(text) |-> IF text[p] = "\t" THEN " " ELSE text[p]]

\* re.sub(r'\t+', ' ', content)
collapse_tabs(text) == tabs_to_blanks(first_tabs(text))

\* [line.strip() for line in lines]
strip_each(ls) == [n \in 1..Len(ls) |-> strip(ls[n])]

\* lines = content.split('\n'); strip each; '\n'.join(lines)
strip_lines(text) == join_lines(strip_each(split_lines(text)))

\* re.sub(r'\n{3,}', '\n\n', content)
collapse_newlines(text) ==
    SelectIdx(text, LAMBDA p :
        ~(text[p] = "\n" /\ p > 2 /\ text[p - 1] = "\n" /\ text[p - 2] = "\n"))

\* "if content != original_content: stats.whitespace_normalized += 1"
count_whitespace_change(new_text, text, st) ==
    Cleaned(new_text, IF new_text # text
                      THEN [st EXCEPT !.whitespace_normalized = @ + 1]
                      ELSE st)

\* _standardize_whitespace
standardize_whitespace(text, st) ==
    count_whitespace_change(
        collapse_newlines(strip_lines(collapse_tabs(collapse_spaces(text)))),
        text, st)

\* sum(1 for c in line if not c.isalnum() and not c.isspace())
special_count(line) ==
    Cardinality({p \in 1..Len(line) : ~IsAlnum(line[p]) /\ ~IsSpace(line[p])})

\* the loop with the short-line test off by one (len(line) < 2)
filtered_lines_keep_short(ls) ==
    LET F[n \in 0..Len(ls)] ==
            IF n = 0 THEN <<>>
            ELSE IF Len(strip(ls[n])) < 2 THEN F[n - 1]
            ELSE IF 10 * special_count(strip(ls[n])) > 7 * Len(strip(ls[n]))
                 THEN F[n - 1]
            ELSE IF /\ F[n - 1] # <<>>
                    /\ F[n - 1][Len(F[n - 1])] = strip(ls[n])
                 THEN F[n - 1]
            ELSE Append(F[n - 1], strip(ls[n]))
    IN F[Len(ls)]

\* the loop of _remove_redundant_content over the lines ls
filtered_lines(ls) ==
    LET F[n \in 0..Len(ls)] ==
            IF n = 0 THEN <<>>
            ELSE IF Len(strip(ls[n])) < 3 THEN F[n - 1]
            \* special_char_ratio > 0.7
            ELSE IF 10 * special_count(strip(ls[n])) > 7 * Len(strip(ls[n]))
                 THEN F[n - 1]
            ELSE IF /\ F[n - 1] # <<>>
                    /\ F[n - 1][Len(F[n - 1])] = strip(ls[n])
                 THEN F[n - 1]
            ELSE Append(F[n - 1], strip(ls[n]))
    IN F[Len(ls)]

\* _remove_redundant_content
remove_redundant_content(text, st) ==
    Cleaned(join_lines(filtered_lines(split_lines(text))), st)

\* {**element.metadata, 'cleaned': True}
with_cleaned(md) ==
    [key \in (DOMAIN md) \cup {"cleaned"} |->
        IF key = "cleaned" THEN TRUE ELSE md[key]]

\* a cleaning pass applied to the content and stats the previous pass left
Pass(Op(_, _), c) == Op(c.content, c.stats)

\* lines 140-141 of _clean_element
headers_footers_pass(level, c) ==
    IF level \in {"standard", "aggressive"}
    THEN Pass(remove_headers_footers, c) ELSE c

\* lines 150-151 of _clean_element
redundant_pass(level, c) ==
    IF level = "aggressive" THEN Pass(remove_redundant_content, c) ELSE c

\* the passes with invisible-character removal moved to the front
cleaning_passes_invisible_first(text, st, level) ==
    redundant_pass(level,
        Pass(standardize_whitespace,
            Pass(fix_line_breaks,
                Pass(normalize_unicode,
                    headers_footers_pass(level,
                        Pass(remove_invisible_characters,
                             Cleaned(text, st)))))))

\* lines 140-151 of _clean_element: the passes in their order
cleaning_passes(text, st, level) ==
    redundant_pass(level,
        Pass(standardize_whitespace,
            Pass(fix_line_breaks,
                Pass(remove_invisible_characters,
                    Pass(normalize_unicode,
                        headers_footers_pass(level, Cleaned(text, st)))))))

\* lines 154-160 of _clean_element
cleaned_element(element, c) ==
    [element |->
        [content |-> c.content,
         element_type |-> element.element_type,
         level |-> element.level,
         position |-> element.position,
         metadata |-> with_cleaned(element.metadata),
         parent_id |-> None,
         children_ids |-> <<>>],
     stats |-> c.stats]

\* _clean_element: the cleaned element (or None) and the updated stats
clean_element(element, st, level) ==
    IF element.content = <<>> \/ strip(element.content) = <<>>
    THEN [element |-> None, stats |-> st]
    ELSE cleaned_element(element, cleaning_passes(element.content, st, level))

\* the most common language with ties going to the code met last
determine_language_last_tie(langs) ==
    IF langs = <<>> THEN "unknown"
    ELSE LET count(l) == Cardinality({n \in 1..Len(langs) : langs[n] = l})
             first(l) == CHOOSE n \in 1..Len(langs) :
                            langs[n] = l /\ \A m \in 1..(n - 1) : langs[m] # l
         IN CHOOSE l \in {langs[n] : n \in 1..Len(langs)} :
                \A m \in {langs[n] : n \in 1..Len(langs)} :
                    \/ count(l) > count(m)
                    \/ count(l) = count(m) /\ first(l) >= first(m)

\* _determine_language
determine_language(langs) ==
    IF langs = <<>> THEN "unknown"
    ELSE LET count(l) == Cardinality({n \in 1..Len(langs) : langs[n] = l})
             first(l) == CHOOSE n \in 1..Len(langs) :
                            langs[n] = l /\ \A m \in 1..(n - 1) : langs[m] # l
         IN CHOOSE l \in {langs[n] : n \in 1..Len(langs)} :
                \A m \in {langs[n] : n \in 1..Len(langs)} :
                    \/ count(l) > count(m)
                    \/ count(l) = count(m) /\ first(l) <= first(m)

\* sum(len(elem.content) for elem in es)
RECURSIVE total_chars(_)
total_chars(es) ==
    IF es = <<>> THEN 0 ELSE Len(es[1].content) + total_chars(Tail(es))

----------------------------------------------------------------------------
(* The quality score is a binary floating point number.  It is kept as the *)
(* number of tenths it stands for and its distance, in units in the last   *)
(* place, from the double nearest to that many tenths.                     *)

Float(t) == [tenths |-> t, ulps |-> 0]

\* where IEEE-754 double addition of d tenths to <<tenths, ulps>> does not
\* land on the double nearest to the decimal sum: <<tenths, ulps, d, result>>
Rounding ==
    { <<6, 0, -2, -1>>, <<7, 0, -2, -1>>, <<7, 0, 1, -1>>, <<8, -1, -2, -1>>,
      <<8, 0, -2, 1>>, <<8, 0, -1, 1>>, <<11, -1, -2, -1>>, <<11, 0, -2, 1>>,
      <<11, 0, 1, 1>>, <<12, 0, -1, -1>>, <<12, 1, -2, 1>>, <<13, 0, 1, 1>>,
      <<14, 1, -2, 1>> }

\* score += d / 10   (score -= 0.3 is float_add(score, -3))
float_add(x, d) ==
    [tenths |-> x.tenths + d,
     ulps |-> IF \E r \in Rounding : r[1] = x.tenths /\ r[2] = x.ulps /\ r[3] = d
              THEN (CHOOSE r \in Rounding :
                        r[1] = x.tenths /\ r[2] = x.ulps /\ r[3] = d)[4]
              ELSE 0]

float_lt(x, y) ==
    x.tenths < y.tenths \/ (x.tenths = y.tenths /\ x.ulps < y.ulps)

float_min(x, y) == IF float_lt(y, x) THEN y ELSE x
float_max(x, y) == IF float_lt(x, y) THEN y ELSE x

\* the score with the reduction penalty added instead of subtracted and
\* the final clamp left out
calculate_quality_score_unclamped(es, st) ==
    LET reduction == get_reduction_percentage(st)
        s1 == IF PctGT(reduction, 50) THEN float_add(Float(10), 3)
              ELSE IF PctGT(reduction, 30) THEN float_add(Float(10), 2)
              ELSE IF PctGT(reduction, 15) THEN float_add(Float(10), 1)
              ELSE Float(10)
        s2 == IF Len(es) > 0 /\ total_chars(es) > 100 * Len(es)
                 THEN float_add(s1, 1)
              ELSE IF Len(es) > 0 /\ total_chars(es) < 20 * Len(es)
                 THEN float_add(s1, -1)
              ELSE s1
        s3 == IF 2 * (st.headers_removed + st.footers_removed) > Len(es)
              THEN float_add(s2, -2)
              ELSE s2
    IN s3

\* _calculate_quality_score
calculate_quality_score(es, st) ==
    LET reduction == get_reduction_percentage(st)
        s1 == IF PctGT(reduction, 50) THEN float_add(Float(10), -3)
              ELSE IF PctGT(reduction, 30) THEN float_add(Float(10), -2)
              ELSE IF PctGT(reduction, 15) THEN float_add(Float(10), -1)
              ELSE Float(10)
        \* avg_content_length > 100, < 20
        s2 == IF Len(es) > 0 /\ total_chars(es) > 100 * Len(es)
                 THEN float_add(s1, 1)
              ELSE IF Len(es) > 0 /\ total_chars(es) < 20 * Len(es)
                 THEN float_add(s1, -1)
              ELSE s1
        \* headers_removed + footers_removed > len(elements) * 0.5
        s3 == IF 2 * (st.headers_removed + st.footers_removed) > Len(es)
              THEN float_add(s2, -2)
              ELSE s2
    IN float_max(Float(0), float_min(Float(10), s3))

----------------------------------------------------------------------------
(* Inputs of normalize_document *)

MaxElems == 2        \* elements of an input structure
MaxRuns == 2         \* calls of normalize_document in a row

TextHello == <<"h","e","l","l","o"," ","w","o","r","l","d">>  \* "hello world"
TextPage == <<"P","a","g","e"," ","1">>                       \* "Page 1"
TextReal ==                                           \* "Real content line."
    <<"R","e","a","l"," ","c","o","n","t","e","n","t"," ","l","i","n","e",".">>
TextOk == <<"o","k">>                                         \* "ok"
TextBangs == <<"!","!","!","!","!","!","!","!","!","!">>      \* "!!!!!!!!!!"

\* "word " 25 times and "end": 128 characters
TextLong ==
    [n \in 1..125 |-> <<"w","o","r","d"," ">>[((n - 1) % 5) + 1]]
        \o <<"e","n","d">>

\* "word " 9 times and "final": 50 characters
Text50 ==
    [n \in 1..45 |-> <<"w","o","r","d"," ">>[((n - 1) % 5) + 1]]
        \o <<"f","i","n","a","l">>

ElemContents ==
    { <<>>,
      TextHello,
      join_lines(<<TextPage, <<>>, TextReal>>),   \* "Page 1\n\nReal content line."
      <<"U0958","a","b">>,                        \* U+0958 grows under NFC
      <<"a","U200B","b"," "," ","c">>,            \* zero-width space, two blanks
      join_lines(<<<<"a","b","c">>, <<"d","e","f">>>>),       \* "abc\ndef"
      join_lines(<<TextOk, TextBangs, TextOk, TextOk>>),  \* "ok\n!!!!!!!!!!\nok\nok"
      <<"P","a","U200B","g","e"," ","1">>,        \* "Page 1" split by U+200B
      <<"\n">> \o Text50,                         \* 51 characters, 50 stripped
      TextLong }

CleaningLevels == {"minimal", "standard", "aggressive"}

\* what langdetect.detect returns, or the exception it raises
DetectOutcomes == {"en", "am", "LangDetectException"}

\* DocumentElement(content=..., element_type=PARAGRAPH, level=0,
\*                 position=..., metadata={})
MockElement(c, pos) ==
    [content |-> c, element_type |-> "paragraph", level |-> 0,
     position |-> pos, metadata |-> EmptyDict,
     parent_id |-> None, children_ids |-> <<>>]

\* the first element as the parser builds a heading, the others as the
\* mock paragraphs of the test
InputElement(c, pos) ==
    IF pos = 0 THEN DocumentElement(c, "heading", 1, 0, 0, 0)
    ELSE MockElement(c, pos)

Structures ==
    UNION { { DocumentStructure([n \in 1..m |-> InputElement(cs[n], n - 1)],
                                EmptyDict, EmptyDict, <<>>) :
              cs \in [1..m -> ElemContents] } : m \in 0..MaxElems }

----------------------------------------------------------------------------
(* DocumentNormalizer.normalize_document as a state machine *)

ParserIdle ==
    /\ content = <<>>
    /\ file_type = "unknown"
    /\ lines = <<>>
    /\ doc_format = "unset"
    /\ i = 0
    /\ position = 0
    /\ elements = <<>>
    /\ hierarchy = EmptyDict
    /\ parent_stack = <<>>
    /\ h = 0
    /\ metadata = EmptyDict
    /\ toc = <<>>
    /\ pc = "idle"

InitNorm ==
    /\ ParserIdle
    /\ structure \in Structures
    /\ cleaning_level \in CleaningLevels
    /\ stats = Null
    /\ cleaned_elements = <<>>
    /\ detected_languages = <<>>
    /\ k = 0
    /\ normalized = Null
    /\ npc = "start"
    /\ detect_calls = <<>>
    /\ run = 1
    /\ validation = Null

\* normalize_document, lines 89-93
NormalizeBegin ==
    /\ npc = "start"
    /\ stats' = [CleaningStats EXCEPT
                    !.original_chars = total_chars(structure.elements)]
    /\ cleaned_elements' = <<>>
    /\ detected_languages' = <<>>
    /\ k' = 0
    /\ npc' = "elements"
    /\ detect_calls' = <<>>
    /\ UNCHANGED <<cleaning_level, normalized, structure, run, validation>>
    /\ UNCHANGED pvars

\* lines 99-104: langdetect.detect on the content of e returns lang or
\* raises LangDetectException, which is caught
DetectLanguage(e, lang) ==
    /\ detect_calls' = Append(detect_calls,
                              [position |-> e.position, outcome |-> lang])
    /\ detected_languages' = IF lang = "LangDetectException"
                             THEN detected_languages
                             ELSE Append(detected_languages, lang)

\* lines 97-106 without the test that the cleaned content is not blank
KeepElement_keeps_blank(r) ==
    /\ stats' = r.stats
    /\ IF r.element # None
       THEN /\ cleaned_elements' = Append(cleaned_elements, r.element)
            /\ IF Len(strip(r.element.content)) > 50
               THEN \E lang \in DetectOutcomes : DetectLanguage(r.element, lang)
               ELSE UNCHANGED <<detected_languages, detect_calls>>
       ELSE UNCHANGED <<cleaned_elements, detected_languages, detect_calls>>

\* lines 97-106: keep the cleaned element r.element, detect its language
KeepElement(r) ==
    /\ stats' = r.stats
    /\ IF r.element # None /\ strip(r.element.content) # <<>>
       THEN /\ cleaned_elements' = Append(cleaned_elements, r.element)
            /\ IF Len(strip(r.element.content)) > 50
               THEN \E lang \in DetectOutcomes : DetectLanguage(r.element, lang)
               ELSE UNCHANGED <<detected_languages, detect_calls>>
       ELSE UNCHANGED <<cleaned_elements, detected_languages, detect_calls>>

\* the loop iteration marking the input element as cleaned in place
\* (element.metadata['cleaned'] = True) instead of building a copy
NormalizeElement_in_place ==
    /\ npc = "elements"
    /\ k < Len(structure.elements)
    /\ KeepElement(clean_element(structure.elements[k + 1], stats,
                                 cleaning_level))
    /\ k' = k + 1
    /\ structure' = [structure EXCEPT
                        !.elements[k + 1].metadata = with_cleaned(@)]
    /\ UNCHANGED <<cleaning_level, normalized, npc, run, validation>>
    /\ UNCHANGED pvars

\* one iteration of the for loop of normalize_document, lines 95-106
NormalizeElement ==
    /\ npc = "elements"
    /\ k < Len(structure.elements)
    /\ KeepElement(clean_element(structure.elements[k + 1], stats,
                                 cleaning_level))
    /\ k' = k + 1
    /\ UNCHANGED <<cleaning_level, normalized, npc, structure, run,
                   validation>>
    /\ UNCHANGED pvars

\* normalize_document, lines 108-129: language, quality score, cleaned_chars
NormalizeReturn ==
    /\ npc = "elements"
    /\ k >= Len(structure.elements)
    /\ LET final_language == determine_language(detected_languages)
           stats1 == [stats EXCEPT !.language_detected = final_language]
           quality_score == calculate_quality_score(cleaned_elements, stats1)
           stats2 == [stats1 EXCEPT
                         !.cleaned_chars = total_chars(cleaned_elements)]
       IN /\ stats' = stats2
          /\ normalized' =
                [original_structure |-> structure,
                 cleaned_elements |-> cleaned_elements,
                 cleaning_stats |-> stats2,
                 detected_language |-> final_language,
                 quality_score |-> quality_score,
                 metadata |-> [cleaning_level |-> cleaning_level,
                               elements_processed |-> Len(structure.elements),
                               elements_kept |-> Len(cleaned_elements)]]
    /\ npc' = "done"
    /\ UNCHANGED <<cleaning_level, cleaned_elements, detected_languages, k,
                   structure, detect_calls, run, validation>>
    /\ UNCHANGED pvars

\* normalize_document called again at the same level, with the cleaned
\* elements of the result as the elements of its input structure
Renormalize ==
    /\ npc = "done"
    /\ run < MaxRuns
    /\ structure' = DocumentStructure(normalized.cleaned_elements,
                                      EmptyDict, EmptyDict, <<>>)
    /\ run' = run + 1
    /\ normalized' = Null
    /\ npc' = "start"
    /\ UNCHANGED <<cleaning_level, stats, cleaned_elements,
                   detected_languages, k, detect_calls, validation>>
    /\ UNCHANGED pvars

\* the reduction check of validate_cleaning, lines 364-369
check_reduction(v, reduction) ==
    IF PctGT(reduction, 60)
    THEN [v EXCEPT !.errors = Append(@, "Excessive content reduction detected"),
                   !.is_valid = FALSE]
    ELSE IF PctGT(reduction, 40)
    THEN [v EXCEPT !.warnings = Append(@, "High content reduction detected")]
    ELSE v

\* the quality score check of validate_cleaning, lines 372-376
check_quality(v, quality_score) ==
    IF float_lt(quality_score, Float(5))
    THEN [v EXCEPT !.errors = Append(@, "Low quality score"),
                   !.is_valid = FALSE]
    ELSE IF float_lt(quality_score, Float(7))
    THEN [v EXCEPT !.warnings = Append(@, "Moderate quality score")]
    ELSE v

\* the remaining content check with the count compared wrongly
check_remaining_off_by_one(v, es) ==
    IF Len(es) <= 1
    THEN [v EXCEPT !.errors = Append(@, "No content remaining after cleaning"),
                   !.is_valid = FALSE]
    ELSE v

\* the remaining content check of validate_cleaning, lines 379-381
check_remaining(v, es) ==
    IF Len(es) = 0
    THEN [v EXCEPT !.errors = Append(@, "No content remaining after cleaning"),
                   !.is_valid = FALSE]
    ELSE v

\* validate_cleaning
validate_cleaning(normalized_doc) ==
    check_remaining(
        check_quality(
            check_reduction(
                [is_valid |-> TRUE, warnings |-> <<>>, errors |-> <<>>],
                get_reduction_percentage(normalized_doc.cleaning_stats)),
            normalized_doc.quality_score),
        normalized_doc.cleaned_elements)

\* a call of validate_cleaning on the document normalize_document returned
ValidateCleaning ==
    /\ npc = "done"
    /\ validation' = validate_cleaning(normalized)
    /\ npc' = "validated"
    /\ UNCHANGED <<cleaning_level, stats, cleaned_elements,
                   detected_languages, k, normalized, structure,
                   detect_calls, run>>
    /\ UNCHANGED pvars

NextNorm ==
    \/ NormalizeBegin
    \/ NormalizeElement
    \/ NormalizeReturn
    \/ Renormalize
    \/ ValidateCleaning

SpecNorm == InitNorm /\ [][NextNorm]_vars

----------------------------------------------------------------------------
(* Properties of normalize_document *)

NormReturned == npc = "done"

\* C8: the quality score of a run carries the reduction penalty of that
\* run's own reduction percentage, the one its final original_chars and
\* cleaned_chars give; a run that removes nothing carries no penalty.
C8_PenaltyMatchesReduction ==
    NormReturned =>
        normalized.quality_score =
            calculate_quality_score(normalized.cleaned_elements,
                                    normalized.cleaning_stats)

\* C9: the quality score of every run lies in [0.0, 1.0].
C9_QualityScoreClamped ==
    NormReturned =>
        /\ ~float_lt(normalized.quality_score, Float(0))
        /\ ~float_lt(Float(10), normalized.quality_score)

\* a run where the reduction penalty, the mean-length penalty and the
\* header/footer penalty all apply
C9_Witness ==
    /\ NormReturned
    /\ normalized.cleaning_stats.headers_removed >= 1
    /\ normalized.cleaned_elements # <<>>
    /\ total_chars(normalized.cleaned_elements)
          < 20 * Len(normalized.cleaned_elements)
    /\ normalized.quality_score.tenths = 4

\* C10: the reduction percentage of the returned stats lies in [0, 100],
\* cleaned_chars never exceeds original_chars, and the percentage is 0 when
\* original_chars is 0 or equals cleaned_chars.
C10_ReductionInRange ==
    NormReturned =>
        LET st == normalized.cleaning_stats
            reduction == get_reduction_percentage(st)
        IN /\ st.cleaned_chars <= st.original_chars
           /\ ~PctLT(reduction, 0)
           /\ ~PctGT(reduction, 100)
           /\ st.original_chars = 0 => reduction.num = 0
           /\ st.original_chars = st.cleaned_chars => reduction.num = 0

\* C11: when normalize_document is run again at the same level on the
\* cleaned elements of a run, the second run removes no header line, no
\* footer line and no invisible character.
C11_Idempotent ==
    (NormReturned /\ run >= 2) =>
        /\ normalized.cleaning_stats.headers_removed = 0
        /\ normalized.cleaning_stats.footers_removed = 0
        /\ normalized.cleaning_stats.invisible_chars_removed = 0

\* C12: normalize_document leaves its input structure as it was (elements
\* with their content, kind, level, position, metadata, parent_id and
\* children_ids, hierarchy, metadata, table of contents), and the result's
\* original_structure is that structure.
C12_InputNotMutated ==
    [][~(npc = "done" /\ npc' = "start") =>
          /\ structure' = structure
          /\ npc' = "done" => normalized'.original_structure = structure]_vars

\* a returned run whose first input element was cleaned to another content
C12_Witness ==
    /\ NormReturned
    /\ run = 1
    /\ normalized.cleaned_elements # <<>>
    /\ normalized.cleaned_elements[1].position = 0
    /\ normalized.cleaned_elements[1].content # structure.elements[1].content
    /\ normalized.cleaned_elements[1].metadata # structure.elements[1].metadata

\* the structure of one element with the given content
OneElement(text) ==
    DocumentStructure(<<InputElement(text, 0)>>, EmptyDict, EmptyDict, <<>>)

\* line l is one of the lines of text
HasLine(text, l) ==
    \E n \in 1..Len(split_lines(text)) : split_lines(text)[n] = l

ScenarioD == OneElement(join_lines(<<TextOk, TextBangs, TextOk, TextOk>>))

ScenarioC == OneElement(join_lines(<<TextPage, <<>>, TextReal>>))

\* line l matches a header or a footer pattern
MatchesHeaderOrFooter(l) ==
    header_patterns(strip(l)) \/ footer_patterns(strip(l))

\* the lines ls without those that match a header or footer pattern
UnmatchedLines(ls) ==
    SelectIdx(ls, LAMBDA n : ~MatchesHeaderOrFooter(ls[n]))

\* the number of lines of ls that match a header or footer pattern
MatchedCount(ls) ==
    Cardinality({n \in 1..Len(ls) : MatchesHeaderOrFooter(ls[n])})

\* the lines header/footer removal drops over the elements es that are
\* cleaned at all
RECURSIVE MatchedTotal(_)
MatchedTotal(es) ==
    IF es = <<>> THEN 0
    ELSE (IF strip(es[1].content) = <<>> THEN 0
          ELSE MatchedCount(split_lines(es[1].content)))
         + MatchedTotal(Tail(es))

\* C14: standard cleaning of the lines "Page 1", blank, "Real content
\* line." drops "Page 1" and keeps "Real content line." with
\* headers_removed + footers_removed = 1; in every run with header/footer
\* removal the two counters add up to the number of dropped lines, and
\* the lines that match no header or footer pattern are all kept.
C14_HeaderFooterCount ==
    (NormReturned /\ cleaning_level # "minimal") =>
        /\ normalized.cleaning_stats.headers_removed
              + normalized.cleaning_stats.footers_removed
                = MatchedTotal(structure.elements)
        /\ \A n \in 1..Len(structure.elements) :
              remove_headers_footers(structure.elements[n].content,
                                     CleaningStats).content
                = join_lines(UnmatchedLines(
                                 split_lines(structure.elements[n].content)))
        /\ (structure = ScenarioC /\ cleaning_level = "standard") =>
              /\ normalized.cleaning_stats.headers_removed
                    + normalized.cleaning_stats.footers_removed = 1
              /\ Len(normalized.cleaned_elements) = 1
              /\ ~HasLine(normalized.cleaned_elements[1].content, TextPage)
              /\ HasLine(normalized.cleaned_elements[1].content, TextReal)

C14_Witness ==
    NormReturned /\ structure = ScenarioC /\ cleaning_level = "standard"

\* the content the four passes of every level give, in their order
BasicPasses(text) ==
    standardize_whitespace(
        fix_line_breaks(
            remove_invisible_characters(
                normalize_unicode(text, CleaningStats).content,
                CleaningStats).content,
            CleaningStats).content,
        CleaningStats).content

\* the content the passes a level enables give, in the claimed order
ExpectedContent(text, level) ==
    IF level = "minimal" THEN BasicPasses(text)
    ELSE IF level = "standard"
    THEN BasicPasses(remove_headers_footers(text, CleaningStats).content)
    ELSE remove_redundant_content(
             BasicPasses(remove_headers_footers(text, CleaningStats).content),
             CleaningStats).content

\* the input elements whose expected content is not blank
ExpectedKept(es, level) ==
    SelectIdx(es, LAMBDA n :
        /\ strip(es[n].content) # <<>>
        /\ strip(ExpectedContent(es[n].content, level)) # <<>>)

\* cs holds, in order, the expected contents of the elements es
ContentsAre(cs, es, level) ==
    /\ Len(cs) = Len(es)
    /\ \A n \in 1..Len(es) :
          cs[n].content = ExpectedContent(es[n].content, level)

\* C15: at minimal level no header or footer line is ever removed, and at
\* every level the content of each kept element is what the enabled passes
\* give in the order header/footer removal (standard, aggressive), unicode
\* normalization, invisible-character removal, line-break repair,
\* whitespace standardization, redundant-content filtering (aggressive).
C15_PassesByLevel ==
    NormReturned =>
        /\ cleaning_level = "minimal" =>
              /\ normalized.cleaning_stats.headers_removed = 0
              /\ normalized.cleaning_stats.footers_removed = 0
        /\ ContentsAre(normalized.cleaned_elements,
                       ExpectedKept(structure.elements, cleaning_level),
                       cleaning_level)

\* header/footer removal ran before the invisible character went: the
\* line "Page 1" it would have dropped is still there
C15_Witness ==
    /\ NormReturned
    /\ cleaning_level = "standard"
    /\ structure = OneElement(<<"P","a","U200B","g","e"," ","1">>)
    /\ Len(normalized.cleaned_elements) = 1
    /\ normalized.cleaned_elements[1].content = TextPage
    /\ normalized.cleaning_stats.invisible_chars_removed = 1

\* cs is a subsequence of es, in order, each element with the kind, level
\* and position of its source
IsSubsequenceOf(cs, es) ==
    \E f \in [1..Len(cs) -> 1..Len(es)] :
        /\ \A n \in 1..Len(cs), m \in 1..Len(cs) : n < m => f[n] < f[m]
        /\ \A n \in 1..Len(cs) :
              /\ cs[n].element_type = es[f[n]].element_type
              /\ cs[n].level = es[f[n]].level
              /\ cs[n].position = es[f[n]].position

\* C18: no element of cleaned_elements has empty or whitespace-only content,
\* and cleaned_elements is an order-preserving subsequence of the input
\* elements, each kept element with the kind, level and position of its
\* source.
C18_BlankElementsDropped ==
    NormReturned =>
        /\ \A n \in 1..Len(normalized.cleaned_elements) :
              strip(normalized.cleaned_elements[n].content) # <<>>
        /\ IsSubsequenceOf(normalized.cleaned_elements, structure.elements)

\* a run that cleaned its first element to nothing and kept its second
C18_Witness ==
    /\ NormReturned
    /\ Len(structure.elements) = 2
    /\ strip(structure.elements[1].content) # <<>>
    /\ Len(normalized.cleaned_elements) = 1
    /\ normalized.cleaned_elements[1].position = 1

\* the verdict v is the one claimed for the document doc
VerdictFor(v, doc) ==
    /\ v.is_valid = FALSE <=>
          \/ PctGT(get_reduction_percentage(doc.cleaning_stats), 60)
          \/ float_lt(doc.quality_score, Float(5))
          \/ doc.cleaned_elements = <<>>
    /\ v.is_valid = FALSE => v.errors # <<>>
    /\ v.warnings # <<>> <=>
          \/ /\ PctGT(get_reduction_percentage(doc.cleaning_stats), 40)
             /\ ~PctGT(get_reduction_percentage(doc.cleaning_stats), 60)
          \/ /\ ~float_lt(doc.quality_score, Float(5))
             /\ float_lt(doc.quality_score, Float(7))

\* C19: validate_cleaning reports is_valid = false exactly when the
\* reduction exceeds 60, the quality score is below 0.5 or no element is
\* left, and then reports an error; it reports a warning exactly when the
\* reduction is in (40, 60] or the score in [0.5, 0.7); and it leaves the
\* document and its stats as they were.
C19_Validation ==
    [][(npc = "done" /\ npc' = "validated") =>
          /\ normalized' = normalized
          /\ stats' = stats
          /\ VerdictFor(validation', normalized)]_vars

\* a validated document with the warning for a reduction in (40, 60]
C19_Witness ==
    /\ npc = "validated"
    /\ PctGT(get_reduction_percentage(normalized.cleaning_stats), 40)
    /\ ~PctGT(get_reduction_percentage(normalized.cleaning_stats), 60)
    /\ \E n \in 1..Len(validation.warnings) :
          validation.warnings[n] = "High content reduction detected"

\* the codes the detector returned, in call order
SuccessfulResults(calls) ==
    LET ok == SelectIdx(calls, LAMBDA n :
                  calls[n].outcome # "LangDetectException")
    IN [n \in 1..Len(ok) |-> ok[n].outcome]

\* the number of entries of codes equal to code
Votes(codes, code) == Cardinality({n \in 1..Len(codes) : codes[n] = code})

\* n is the place where codes[n] is met first
FirstMet(codes, n) == \A m \in 1..(n - 1) : codes[m] # codes[n]

\* the most frequent code, the one met first among the most frequent
MostFrequent(codes) ==
    IF codes = <<>> THEN "unknown"
    ELSE codes[CHOOSE n \in 1..Len(codes) :
                  /\ FirstMet(codes, n)
                  /\ \A m \in 1..Len(codes) :
                        \/ Votes(codes, codes[n]) > Votes(codes, codes[m])
                        \/ /\ Votes(codes, codes[n]) = Votes(codes, codes[m])
                           /\ (FirstMet(codes, m) => n <= m)]

\* the positions of the elements the detector was called on, in call order
CalledOn(calls) == [n \in 1..Len(calls) |-> calls[n].position]

\* the positions of the elements of es longer than 50 characters
LongerThan50(es) ==
    LET long == SelectIdx(es, LAMBDA n : Len(es[n].content) > 50)
    IN [n \in 1..Len(long) |-> long[n].position]

\* the positions of the elements of es longer than 50 characters once
\* surrounding whitespace is stripped
StrippedLongerThan50(es) ==
    LET long == SelectIdx(es, LAMBDA n : Len(strip(es[n].content)) > 50)
    IN [n \in 1..Len(long) |-> long[n].position]

\* the language is the vote of the successful detections and the run went
\* over every input element, whatever the detector did
VoteDecides ==
    /\ normalized.detected_language
          = MostFrequent(SuccessfulResults(detect_calls))
    /\ normalized.cleaning_stats.language_detected
          = normalized.detected_language
    /\ normalized.metadata.elements_processed = Len(structure.elements)

JoinBroken(ls) ==
    LET F[n \in 1..Len(ls)] ==
            IF n = 1 THEN strip(ls[1])
            ELSE F[n - 1]
                 \o (IF broken_sentence(ls, n - 1) THEN <<" ">> ELSE <<"\n">>)
                 \o strip(ls[n])
    IN F[Len(ls)]

\* the number of such breaks
BrokenCount(ls) == Cardinality({n \in 1..Len(ls) : broken_sentence(ls, n)})

\* the claimed outcome of line-break repair on the lines ls, for the
\* outcome r of _fix_line_breaks
RepairJoins(r, ls) ==
    /\ r.content = JoinBroken(ls)
    /\ r.stats.line_breaks_fixed = BrokenCount(ls)
    /\ Len(split_lines(r.content)) = Len(ls) - BrokenCount(ls)

\* C22: line-break repair joins a line that ends in a lowercase letter with
\* a next line that starts with one into one line, with a single space in
\* place of the newline, so that the line count drops by one per join, and
\* counts one line_breaks_fixed per join; every other line break is kept.
C22_LineBreakRepair ==
    NormReturned =>
        \A n \in 1..Len(structure.elements) :
            RepairJoins(fix_line_breaks(structure.elements[n].content,
                                        CleaningStats),
                        split_lines(replace_cr(replace_crlf(
                            structure.elements[n].content))))

====
